---- MODULE Spec2Model ----
(***************************************************************************)
(* A model of anytree (src/anytree/__init__.py): the parent/children       *)
(* linkage maintained by the NodeMixin.parent setter, the derived          *)
(* properties path/root/descendants, PreOrderIter and Walker.walk.         *)
(*                                                                         *)
(* Nodes are the integers 1..NumNodes; Python's None is 0.  The state is   *)
(* every node's _parent reference and _children list, together with a      *)
(* record of the last call made (its arguments, its outcome, the hooks it  *)
(* fired, its result) and the tree as it was when that call started.       *)
(***************************************************************************)
EXTENDS Integers, Sequences, FiniteSets, TLC

\* Number of node objects that exist.
NumNodes == 4

Nodes == 1..NumNodes

\* Python's None (the value of parent for a root node).
None == 0

VARIABLES
    parent,     \* node -> its _parent (None for a root)
    children,   \* node -> its _children list
    parent0,    \* parent as it was when the last call started
    children0,  \* children as it was when the last call started
    raised0,    \* TRUE when a parent assignment before the last call raised
    last,       \* the last call: kind, arguments, outcome, hooks, result
    cache,      \* the keys of Resolver._match_cache
    cache0,     \* cache as it was when the last call started
    reLegacy,   \* TRUE when re.compile accepts (?ms) at the end of a pattern
    res,        \* the last resolver or match call: arguments, result
    it          \* the generator of PreOrderIter.__iter__ the caller holds

vars == <<parent, children, parent0, children0, raised0, last,
          cache, cache0, reLegacy, res, it>>

----------------------------------------------------------------------------
\* Python list primitives used by the code.

\* x in s
Contains(s, x) == \E i \in 1..Len(s) : s[i] = x

\* index of the first occurrence of x in s (x is in s)
IndexOf(s, x) == CHOOSE i \in 1..Len(s) : s[i] = x /\ \A j \in 1..(i - 1) : s[j] # x

\* a remove that also turns the remaining elements around
RemoveReversing(s, x) ==
    LET i == IndexOf(s, x)
        r == SubSeq(s, 1, i - 1) \o SubSeq(s, i + 1, Len(s))
    IN  [j \in 1..Len(r) |-> r[Len(r) + 1 - j]]

\* s.remove(x): delete the first occurrence of x, keep the rest in order
Remove(s, x) ==
    LET i == IndexOf(s, x)
    IN  SubSeq(s, 1, i - 1) \o SubSeq(s, i + 1, Len(s))

\* an append that inserts at the front
ListPrepend(s, x) == <<x>> \o s

\* s.append(x)
ListAppend(s, x) == Append(s, x)

\* reversed(s)
Reversed(s) == [i \in 1..Len(s) |-> s[Len(s) + 1 - i]]

----------------------------------------------------------------------------
\* NodeMixin derived properties, over a parent map par and a children map ch.

\* the while loop of NodeMixin._path: path.insert(0, node); node = node.parent
RECURSIVE PathLoop(_, _, _)
PathLoop(par, node, path) ==
    IF node = None THEN path
    ELSE PathLoop(par, par[node], <<node>> \o path)

\* a path that stops at the parent
PathShort(par, node) ==
    IF par[node] = None THEN <<node>> ELSE <<par[node], node>>

\* NodeMixin._path / NodeMixin.path
Path(par, node) == PathLoop(par, node, <<>>)

\* NodeMixin.root
Root(par, node) == IF par[node] # None THEN Path(par, node)[1] ELSE node

\* NodeMixin.is_root
IsRoot(par, node) == par[node] = None

\* a resumption that puts the children behind the rest of the stack
ResumeBreadth(ch, stack) == Tail(stack) \o ch[stack[1]]

\* the generator is resumed after `yield node`, node being stack[0]:
\* stack = node.children + stack[1:], on the children list as it is now
Resume(ch, stack) == ch[stack[1]] \o Tail(stack)

\* the while loop of PreOrderIter.__iter__ run to its end with nothing
\* between its steps, as tuple() runs it: yield stack[0], resume
RECURSIVE PreOrderLoop(_, _, _)
PreOrderLoop(ch, stack, out) ==
    IF stack = <<>> THEN out
    ELSE PreOrderLoop(ch, Resume(ch, stack), Append(out, stack[1]))

\* tuple(PreOrderIter(node))
PreOrderIter(ch, node) == PreOrderLoop(ch, <<node>>, <<>>)

\* NodeMixin.descendants: tuple(PreOrderIter(self))[1:], one call that
\* exhausts the generator before the caller's next statement
Descendants(ch, node) == Tail(PreOrderIter(ch, node))

----------------------------------------------------------------------------
\* The parent setter.

\* one hook call: which hook, its argument, and whether self was in the
\* argument's children list at the moment the hook ran
HookCall(name, ch, self, arg) ==
    [hook |-> name, arg |-> arg, member |-> Contains(ch[arg], self)]

\* a detach that runs _post_detach before the remove
DetachPostFirst(ch, self, par) ==
    IF ~Contains(ch[par], self)
    THEN [children |-> ch,
          hooks |-> <<HookCall("pre_detach", ch, self, par)>>,
          failed |-> TRUE]
    ELSE [children |-> [ch EXCEPT ![par] = Remove(@, self)],
          hooks |-> <<HookCall("pre_detach", ch, self, par),
                      HookCall("post_detach", ch, self, par)>>,
          failed |-> FALSE]

\* "if parent:" block of the setter: _pre_detach, assert, remove, _post_detach.
\* failed is TRUE when the assert raises (after _pre_detach has run).
Detach(ch, self, par) ==
    IF ~Contains(ch[par], self)
    THEN [children |-> ch,
          hooks |-> <<HookCall("pre_detach", ch, self, par)>>,
          failed |-> TRUE]
    ELSE LET ch1 == [ch EXCEPT ![par] = Remove(@, self)]
         IN  [children |-> ch1,
              hooks |-> <<HookCall("pre_detach", ch, self, par),
                          HookCall("post_detach", ch1, self, par)>>,
              failed |-> FALSE]

\* a setter that never keeps the parent
KeepParentNever(par, value) == FALSE

\* "elif parent is not value" is not taken: the parent is kept
KeepParent(par, value) == par = value

\* a loop check that only looks at value is self
IsLoopSelfOnly(par, self, value) == value = self

\* the two loop checks: value is self, self in value.path
IsLoop(par, self, value) ==
    \/ value = self
    \/ Contains(Path(par, value), self)

\* _pre_attach, assert, append, _post_attach.
Attach(ch, self, value) ==
    IF Contains(ch[value], self)
    THEN [children |-> ch,
          hooks |-> <<HookCall("pre_attach", ch, self, value)>>,
          failed |-> TRUE]
    ELSE LET ch1 == [ch EXCEPT ![value] = ListAppend(@, self)]
         IN  [children |-> ch1,
              hooks |-> <<HookCall("pre_attach", ch, self, value),
                          HookCall("post_attach", ch1, self, value)>>,
              failed |-> FALSE]

\* an assignment that is lost
ApplyLost(par, self, value) == par

\* "self._parent = value"
Apply(par, self, value) == [par EXCEPT ![self] = value]

\* the result of a setter call that raised: _parent is not assigned
Raised(par, ch, exc, hooks) ==
    [parent |-> par, children |-> ch, outcome |-> exc, hooks |-> hooks]

\* the result of a setter call that returned
Returned(par, ch, self, value, hooks) ==
    [parent |-> Apply(par, self, value), children |-> ch,
     outcome |-> "ok", hooks |-> hooks]

\* NodeMixin.parent setter: self.parent = value
SetParent(par, ch, self, value) ==
    LET old == par[self] IN
    IF value = None THEN
        IF old # None THEN
            LET d == Detach(ch, self, old) IN
            IF d.failed
            THEN Raised(par, d.children, "AssertionError", d.hooks)
            ELSE Returned(par, d.children, self, value, d.hooks)
        ELSE Returned(par, ch, self, value, <<>>)
    ELSE IF ~KeepParent(old, value) THEN
        LET d == IF old # None THEN Detach(ch, self, old)
                 ELSE [children |-> ch, hooks |-> <<>>, failed |-> FALSE]
        IN
        IF d.failed
        THEN Raised(par, d.children, "AssertionError", d.hooks)
        ELSE IF IsLoop(par, self, value)
        THEN Raised(par, d.children, "LoopError", d.hooks)
        ELSE LET a == Attach(d.children, self, value) IN
             IF a.failed
             THEN Raised(par, a.children, "AssertionError", d.hooks \o a.hooks)
             ELSE Returned(par, a.children, self, value, d.hooks \o a.hooks)
    ELSE Returned(par, ch, self, value, <<>>)

----------------------------------------------------------------------------
\* Walker.walk

\* [si for si, ei in zip(s, e) if si is ei]
RECURSIVE ZipSame(_, _)
ZipSame(s, e) ==
    IF s = <<>> \/ e = <<>> THEN <<>>
    ELSE (IF Head(s) = Head(e) THEN <<Head(s)>> ELSE <<>>)
         \o ZipSame(Tail(s), Tail(e))

\* index (1-based) of c[-1] in the paths: cs + 1 of the code
CommonIndex(c) == Len(c)

\* an up list that is not reversed
WalkUpForward(s, c, start) ==
    IF start = c[Len(c)] THEN <<>>
    ELSE SubSeq(s, Len(c), Len(s) - 1)

\* up = [] if start is c[-1] else list(reversed(s[cs:-1]))
WalkUp(s, c, start) ==
    IF start = c[Len(c)] THEN <<>>
    ELSE Reversed(SubSeq(s, CommonIndex(c), Len(s) - 1))

\* down = [] if end is c[-1] else list(e[cs + 1:])
WalkDown(e, c, end) ==
    IF end = c[Len(c)] THEN <<>>
    ELSE SubSeq(e, CommonIndex(c) + 1, Len(e))

\* Walker.walk(start, end)
Walk(par, start, end) ==
    LET s == Path(par, start)
        e == Path(par, end)
    IN  IF Root(par, start) # Root(par, end)
        THEN [outcome |-> "WalkError", up |-> <<>>, down |-> <<>>]
        ELSE LET c == ZipSame(s, e)
             IN  [outcome |-> "ok",
                  up |-> WalkUp(s, c, start),
                  down |-> WalkDown(e, c, end)]

----------------------------------------------------------------------------
\* Resolver.  A string is the sequence of its characters.  A path is given
\* by path.split("/"), the non-empty list of its segments: the string and
\* the list determine each other ("" is <<"">>, "/" is <<"", "">>,
\* "/top/x" is <<"", "top", "x">>).

\* the segments "", "." and ".."
Empty == <<>>
Dot == <<".">>
DotDot == <<".", ".">>

\* the name each node is constructed with (Node.__init__: self.name = name)
NameTable == << <<"a">>, <<"b">>, <<"b">>, <<"a", "b">> >>
NameOf(n) == NameTable[((n - 1) % Len(NameTable)) + 1]

\* Resolver.__get_part with pathattr='name'
GetPart(node) == NameOf(node)

\* a dict in which the first value of a key stays
DictSetKeepFirst(items, key, val) ==
    IF \E i \in 1..Len(items) : items[i].key = key
    THEN items
    ELSE Append(items, [key |-> key, child |-> val])

\* OrderedDict.__setitem__ on the list of items: an existing key keeps its
\* position and gets the new value, a new key is appended
DictSet(items, key, val) ==
    IF \E i \in 1..Len(items) : items[i].key = key
    THEN [i \in 1..Len(items) |->
             IF items[i].key = key THEN [key |-> key, child |-> val]
             ELSE items[i]]
    ELSE Append(items, [key |-> key, child |-> val])

\* OrderedDict(subnodes)
RECURSIVE OrderedDict(_, _)
OrderedDict(pairs, items) ==
    IF pairs = <<>> THEN items
    ELSE OrderedDict(Tail(pairs), DictSet(items, Head(pairs).key, Head(pairs).child))

\* Resolver.__get_nodemap: the items of the ordered dict, in order
GetNodemap(ch, node) ==
    OrderedDict([i \in 1..Len(ch[node]) |->
                    [key |-> GetPart(ch[node][i]), child |-> ch[node][i]]],
                <<>>)

\* nodemap.keys()
Keys(items) == [i \in 1..Len(items) |-> items[i].key]

\* part in nodemap
HasKey(items, key) == \E i \in 1..Len(items) : items[i].key = key

\* nodemap[part] (part is a key)
Lookup(items, key) ==
    items[CHOOSE i \in 1..Len(items) : items[i].key = key].child

\* Resolver.__is_wildcard
IsWildcard(pat) == Contains(pat, "?") \/ Contains(pat, "*")

\* Resolver.__translate: the regular expression as a list of items,
\* ".*" for "*", "." for "?", the escaped character otherwise; the list is
\* followed by \Z(?ms)
Translate(pat) ==
    [i \in 1..Len(pat) |->
        IF pat[i] = "*" THEN [op |-> "dotstar", c |-> ""]
        ELSE IF pat[i] = "?" THEN [op |-> "dot", c |-> ""]
        ELSE [op |-> "lit", c |-> pat[i]]]

\* re_pat.match(name) is not None, for a pattern made by Translate: the
\* match starts at the start of name and \Z ends it at the end of name
RECURSIVE ReMatch(_, _)
ReMatch(re, name) ==
    IF re = <<>> THEN name = <<>>
    ELSE IF Head(re).op = "dotstar"
    THEN \E k \in 0..Len(name) :
            ReMatch(Tail(re), SubSeq(name, k + 1, Len(name)))
    ELSE IF Head(re).op = "dot"
    THEN name # <<>> /\ ReMatch(Tail(re), Tail(name))
    ELSE name # <<>> /\ Head(name) = Head(re).c
         /\ ReMatch(Tail(re), Tail(name))

\* _MAXCACHE
MAXCACHE == 20

\* a cache that is cleared one entry too late
CacheAfterMatchLate(c, pat, legacy) ==
    IF pat \in c THEN c
    ELSE LET kept == IF Cardinality(c) > MAXCACHE THEN {} ELSE c
         IN  IF legacy THEN kept \cup {pat} ELSE kept

\* the effect of Resolver.__match(name, pat) on Resolver._match_cache (the
\* set of its keys).  legacy is TRUE when re.compile accepts the global
\* flags (?ms) at the end of the expression (Python up to 3.10) and FALSE
\* when it raises re.error there (Python 3.11 on): then nothing is stored.
CacheAfterMatch(c, pat, legacy) ==
    IF pat \in c THEN c
    ELSE LET kept == IF Cardinality(c) >= MAXCACHE THEN {} ELSE c
         IN  IF legacy THEN kept \cup {pat} ELSE kept

\* the cache after the calls of __match with the patterns pats, in order
RECURSIVE CacheAfter(_, _, _)
CacheAfter(c, pats, legacy) ==
    IF pats = <<>> THEN c
    ELSE CacheAfter(CacheAfterMatch(c, Head(pats), legacy), Tail(pats), legacy)

\* the value of Resolver.__match(name, pat) when it returns
Match(name, pat) == ReMatch(Translate(pat), name)

\* the outcomes of a resolver call.  node is the value returned by get,
\* nodes the list returned by glob; enode, echild and ekeys are the node,
\* the child and the children keys of a ResolverError; pats are the
\* patterns __match was called with, in order.
Found(node, pats) ==
    [outcome |-> "ok", node |-> node, nodes |-> <<>>,
     enode |-> None, echild |-> <<>>, ekeys |-> <<>>, pats |-> pats]

FoundAll(nodes, pats) ==
    [outcome |-> "ok", node |-> None, nodes |-> nodes,
     enode |-> None, echild |-> <<>>, ekeys |-> <<>>, pats |-> pats]

Fails(exc, pats) ==
    [outcome |-> exc, node |-> None, nodes |-> <<>>,
     enode |-> None, echild |-> <<>>, ekeys |-> <<>>, pats |-> pats]

\* raise ResolverError(node, "", msg)
FailsResolver(node) ==
    [outcome |-> "ResolverError", node |-> None, nodes |-> <<>>,
     enode |-> node, echild |-> <<>>, ekeys |-> <<>>, pats |-> <<>>]

\* raise ChildResolverError(node, part, nodemap.keys())
FailsChild(node, part, keys, pats) ==
    [outcome |-> "ChildResolverError", node |-> None, nodes |-> <<>>,
     enode |-> node, echild |-> part, ekeys |-> keys, pats |-> pats]

\* except ResolverError (ChildResolverError is a subclass)
IsResolverError(exc) == exc \in {"ResolverError", "ChildResolverError"}

\* path.startswith("/"), on the list of segments
IsAbsolute(parts) == Len(parts) >= 2 /\ parts[1] = Empty

\* Resolver.__start: ok with the start node and the parts left, or the
\* ResolverError raised
Start(par, node, parts) ==
    IF IsAbsolute(parts)
    THEN LET root == Root(par, node)
             rootpart == GetPart(root)
             popped == Tail(parts)
         IN  IF popped[1] = Empty THEN FailsResolver(root)
             ELSE IF popped[1] # rootpart THEN FailsResolver(root)
             ELSE [outcome |-> "ok", node |-> root, parts |-> Tail(popped)]
    ELSE [outcome |-> "ok", node |-> node, parts |-> parts]

\* the for loop of Resolver.get
RECURSIVE GetLoop(_, _, _, _)
GetLoop(par, ch, node, parts) ==
    IF parts = <<>> THEN Found(node, <<>>)
    ELSE LET part == Head(parts) IN
         IF part = DotDot
         THEN IF node = None THEN Fails("AttributeError", <<>>)
              ELSE GetLoop(par, ch, par[node], Tail(parts))
         ELSE IF part \in {Empty, Dot}
         THEN GetLoop(par, ch, node, Tail(parts))
         ELSE IF node = None THEN Fails("AttributeError", <<>>)
         ELSE LET nodemap == GetNodemap(ch, node) IN
              IF HasKey(nodemap, part)
              THEN GetLoop(par, ch, Lookup(nodemap, part), Tail(parts))
              ELSE FailsChild(node, part, Keys(nodemap), <<>>)

\* Resolver.get(node, path)
Get(par, ch, node, parts) ==
    LET st == Start(par, node, parts) IN
    IF st.outcome # "ok" THEN st
    ELSE GetLoop(par, ch, st.node, st.parts)

\* Resolver.__glob, and its loop over nodemap.items() from item i on
RECURSIVE GlobRec(_, _, _, _, _)
RECURSIVE GlobItems(_, _, _, _, _, _, _, _, _)
GlobItems(par, ch, legacy, node, parts, items, i, matches, pats) ==
    LET part == Head(parts)
        remainparts == Tail(parts)
    IN
    IF i > Len(items)
    THEN IF matches = <<>> /\ ~IsWildcard(part)
         THEN FailsChild(node, part, Keys(items), pats)
         ELSE FoundAll(matches, pats)
    ELSE LET name == items[i].key
             child == items[i].child
             pats1 == Append(pats, part)
         IN
         IF ~legacy THEN Fails("re.error", pats1)
         ELSE IF ~Match(name, part)
         THEN GlobItems(par, ch, legacy, node, parts, items, i + 1, matches, pats1)
         ELSE IF remainparts = <<>>
         THEN GlobItems(par, ch, legacy, node, parts, items, i + 1,
                        Append(matches, child), pats1)
         ELSE LET r == GlobRec(par, ch, legacy, child, remainparts)
                  pats2 == pats1 \o r.pats
              IN
              IF r.outcome = "ok"
              THEN GlobItems(par, ch, legacy, node, parts, items, i + 1,
                             matches \o r.nodes, pats2)
              ELSE IF IsResolverError(r.outcome) /\ IsWildcard(part)
              THEN GlobItems(par, ch, legacy, node, parts, items, i + 1,
                             matches, pats2)
              ELSE [r EXCEPT !.pats = pats2]

GlobRec(par, ch, legacy, node, parts) ==
    IF parts = <<>> THEN Fails("IndexError", <<>>)
    ELSE LET part == Head(parts) IN
         IF part = DotDot
         THEN IF node = None THEN Fails("AttributeError", <<>>)
              ELSE GlobRec(par, ch, legacy, par[node], Tail(parts))
         ELSE IF part \in {Empty, Dot}
         THEN GlobRec(par, ch, legacy, node, Tail(parts))
         ELSE IF node = None THEN Fails("AttributeError", <<>>)
         ELSE GlobItems(par, ch, legacy, node, parts,
                        GetNodemap(ch, node), 1, <<>>, <<>>)

\* Resolver.glob(node, path)
Glob(par, ch, legacy, node, parts) ==
    LET st == Start(par, node, parts) IN
    IF st.outcome # "ok" THEN st
    ELSE GlobRec(par, ch, legacy, st.node, st.parts)

----------------------------------------------------------------------------
\* The state machine.  A behaviour is a sequence of calls made by one
\* caller (the library is single-threaded).  Each call is one step: it
\* updates the tree and fills in the record of the call.  Before the next
\* call the caller drops that record (Discard), so that the record always
\* describes exactly one call on the tree it started from.  Discard is
\* always possible after a call, so every sequence of calls is a behaviour.

\* the record when no call has been made since the last Discard
NoCall ==
    [kind |-> "none", node |-> None, value |-> None,
     outcome |-> "ok", hooks |-> <<>>, up |-> <<>>, down |-> <<>>]

\* the record when no resolver or match call has been made
NoRes ==
    [parts |-> <<>>, name |-> <<>>, pat |-> <<>>, matched |-> FALSE,
     node |-> None, nodes |-> <<>>,
     enode |-> None, echild |-> <<>>, ekeys |-> <<>>, pats |-> <<>>]

\* the caller holds no generator.  A generator is created by
\* iter(PreOrderIter(node)) and runs no line of __iter__ until the first
\* next(); it is then suspended at `yield node` with its local stack, and
\* after StopIteration it is finished.  out is what it has yielded,
\* assigned counts the parent assignments made while the caller held it
\* unfinished, and seen holds every children map the tree has had in
\* that time.
NoIter ==
    [pc |-> "none", node |-> None, stack |-> <<>>, out |-> <<>>,
     assigned |-> 0, seen |-> {}]

\* every node is constructed with parent=None: a root without children;
\* Resolver._match_cache = {}; no generator
InitTree ==
    /\ parent = [n \in Nodes |-> None]
    /\ children = [n \in Nodes |-> <<>>]
    /\ parent0 = parent
    /\ children0 = children
    /\ raised0 = FALSE
    /\ last = NoCall
    /\ cache = {}
    /\ cache0 = {}
    /\ res = NoRes
    /\ it = NoIter

\* the tree operations do not use re: one interpreter is enough
Init ==
    /\ InitTree
    /\ reLegacy = TRUE

\* the resolver runs on an interpreter of either kind
InitResolver ==
    /\ InitTree
    /\ reLegacy \in BOOLEAN

\* node.parent = value
SetParentCall(node, value) ==
    LET r == SetParent(parent, children, node, value) IN
    /\ last = NoCall
    /\ parent' = r.parent
    /\ children' = r.children
    /\ last' = [kind |-> "set", node |-> node, value |-> value,
                outcome |-> r.outcome, hooks |-> r.hooks,
                up |-> <<>>, down |-> <<>>]
    /\ it' = IF it.pc \in {"new", "yield"}
             THEN [it EXCEPT !.assigned = @ + 1,
                             !.seen = @ \cup {r.children}]
             ELSE it
    /\ UNCHANGED <<parent0, children0, raised0, cache, cache0, reLegacy, res>>

\* Walker().walk(start, end)
WalkCall(start, end) ==
    LET r == Walk(parent, start, end) IN
    /\ last = NoCall
    /\ last' = [kind |-> "walk", node |-> start, value |-> end,
                outcome |-> r.outcome, hooks |-> <<>>,
                up |-> r.up, down |-> r.down]
    /\ UNCHANGED <<parent, children, parent0, children0, raised0,
                   cache, cache0, reLegacy, res, it>>

\* the caller goes on to its next statement: the record of the finished call
\* is dropped and the tree as it is now is the starting point of the next call
Discard ==
    /\ last # NoCall
    /\ last' = NoCall
    /\ parent0' = parent
    /\ children0' = children
    /\ raised0' = (raised0 \/ (last.kind = "set" /\ last.outcome # "ok"))
    /\ res' = NoRes
    /\ cache0' = cache
    /\ UNCHANGED <<parent, children, cache, reLegacy, it>>

Next ==
    \/ \E node \in Nodes, value \in Nodes \cup {None} : SetParentCall(node, value)
    \/ \E start \in Nodes, end \in Nodes : WalkCall(start, end)
    \/ Discard

Spec == Init /\ [][Next]_vars

----------------------------------------------------------------------------
\* The resolver, on trees built the way the doctests build them: the nodes
\* are constructed one after the other, each with its name and with one of
\* the nodes constructed before it (or None) as parent; then a path is
\* resolved.  get and glob do not change the tree, and what they return
\* does not depend on the cache, so a behaviour ends with the query.

\* the longest path resolved, in segments
MaxParts == 2

\* the segments paths are made of
Segments == {Empty, Dot, DotDot, <<"a">>, <<"b">>, <<"*">>, <<"?">>}

\* the paths resolved: path.split("/") of each
RECURSIVE PartsUpTo(_)
PartsUpTo(k) ==
    IF k = 0 THEN {}
    ELSE {<<s>> : s \in Segments}
         \cup PartsUpTo(k - 1)
         \cup {Append(p, s) : p \in PartsUpTo(k - 1), s \in Segments}

Paths == PartsUpTo(MaxParts)

\* Node(name, parent=value), for the next node to construct
Construct(node, value) ==
    /\ value < node
    /\ parent[node] = None
    /\ \A m \in Nodes : m > node => parent[m] = None
    /\ SetParentCall(node, value)

\* the caller goes on to construct the next node
NextNode ==
    /\ last.kind = "set"
    /\ Discard

\* Resolver('name').get(node, path)
GetCall(node, parts) ==
    LET r == Get(parent, children, node, parts) IN
    /\ last = NoCall
    /\ last' = [kind |-> "get", node |-> node, value |-> None,
                outcome |-> r.outcome, hooks |-> <<>>, up |-> <<>>, down |-> <<>>]
    /\ res' = [NoRes EXCEPT !.parts = parts, !.node = r.node,
                            !.enode = r.enode, !.echild = r.echild,
                            !.ekeys = r.ekeys]
    /\ UNCHANGED <<parent, children, parent0, children0, raised0,
                   cache, cache0, reLegacy, it>>

\* Resolver('name').glob(node, path)
GlobCall(node, parts) ==
    LET r == Glob(parent, children, reLegacy, node, parts) IN
    /\ last = NoCall
    /\ last' = [kind |-> "glob", node |-> node, value |-> None,
                outcome |-> r.outcome, hooks |-> <<>>, up |-> <<>>, down |-> <<>>]
    /\ res' = [NoRes EXCEPT !.parts = parts, !.nodes = r.nodes,
                            !.enode = r.enode, !.echild = r.echild,
                            !.ekeys = r.ekeys, !.pats = r.pats]
    /\ cache' = CacheAfter(cache, r.pats, reLegacy)
    /\ UNCHANGED <<parent, children, parent0, children0, raised0,
                   cache0, reLegacy, it>>

NextResolver ==
    \/ \E node \in Nodes, value \in Nodes : Construct(node, value)
    \/ NextNode
    \/ /\ last = NoCall
       /\ \E node \in Nodes, parts \in Paths : GetCall(node, parts)
    \/ /\ last = NoCall
       /\ \E node \in Nodes, parts \in Paths : GlobCall(node, parts)

SpecResolver == InitResolver /\ [][NextResolver]_vars

----------------------------------------------------------------------------
\* The pattern cache, under calls of Resolver.__match.  The cache only
\* tests whether a pattern is one of its keys, so the patterns are "?",
\* "??", ... and a call uses either a pattern that is in the cache or the
\* shortest pattern that is not.

\* the pattern of k question marks
QPat(k) == [j \in 1..k |-> "?"]

\* more patterns than the cache holds
Patterns == {QPat(k) : k \in 1..(MAXCACHE + 2)}

\* the shortest pattern that is not in the cache
ShortestNew(c) ==
    QPat(CHOOSE k \in 1..(MAXCACHE + 2) :
            /\ QPat(k) \notin c
            /\ \A j \in 1..(k - 1) : QPat(j) \in c)

\* Resolver.__match(name, pat)
MatchCall(name, pat) ==
    /\ last = NoCall
    /\ pat \in cache \/ pat = ShortestNew(cache)
    /\ cache' = CacheAfterMatch(cache, pat, reLegacy)
    /\ last' = [kind |-> "match", node |-> None, value |-> None,
                outcome |-> IF reLegacy THEN "ok" ELSE "re.error",
                hooks |-> <<>>, up |-> <<>>, down |-> <<>>]
    /\ res' = [NoRes EXCEPT !.name = name, !.pat = pat,
                            !.matched = reLegacy /\ Match(name, pat)]
    /\ UNCHANGED <<parent, children, parent0, children0, raised0,
                   cache0, reLegacy, it>>

NextCache ==
    \/ \E n \in Nodes, pat \in Patterns : MatchCall(NameOf(n), pat)
    \/ Discard

SpecCache == InitResolver /\ [][NextCache]_vars

----------------------------------------------------------------------------
\* Pre-order iteration.  PreOrderIter.__iter__ is a generator: each next()
\* is one step of the caller, and between two of them the caller may
\* assign a parent.  The tree is built by constructor calls in node order,
\* then one generator is created and run to its end.

\* the parent assignments the caller makes while it holds the generator
MaxAssign == 1

\* it = iter(PreOrderIter(node))
IterCall(node) ==
    /\ last = NoCall
    /\ it.pc = "none"
    /\ it' = [NoIter EXCEPT !.pc = "new", !.node = node,
                            !.seen = {children}]
    /\ UNCHANGED <<parent, children, parent0, children0, raised0, last,
                   cache, cache0, reLegacy, res>>

\* next(it): the first one runs stack = tuple([self.node]); a later one
\* resumes after the yield.  Then the loop test: an empty stack ends the
\* generator (StopIteration), otherwise stack[0] is yielded.
NextCall ==
    LET stack == IF it.pc = "new" THEN <<it.node>>
                 ELSE Resume(children, it.stack)
    IN  /\ last = NoCall
        /\ it.pc \in {"new", "yield"}
        /\ it' = IF stack = <<>>
                 THEN [it EXCEPT !.pc = "done", !.stack = stack]
                 ELSE [it EXCEPT !.pc = "yield", !.stack = stack,
                                 !.out = Append(@, stack[1])]
        /\ UNCHANGED <<parent, children, parent0, children0, raised0, last,
                       cache, cache0, reLegacy, res>>

\* node.parent = value, between two next() calls
AssignDuring(node, value) ==
    /\ it.pc \in {"new", "yield"}
    /\ it.assigned < MaxAssign
    /\ SetParentCall(node, value)

NextIter ==
    \/ /\ it.pc = "none"
       /\ \E node \in Nodes, value \in Nodes : Construct(node, value)
    \/ Discard
    \/ \E node \in Nodes : IterCall(node)
    \/ NextCall
    \/ \E node \in Nodes, value \in Nodes \cup {None} : AssignDuring(node, value)

SpecIter == Init /\ [][NextIter]_vars

----------------------------------------------------------------------------
\* Vocabulary of the properties, defined from the parent references alone.

\* the node reached from n by k parent steps (None once a root is passed)
RECURSIVE Up(_, _, _)
Up(par, n, k) ==
    IF k = 0 \/ n = None THEN n ELSE Up(par, par[n], k - 1)

\* a is a proper ancestor of n
IsAncestor(par, a, n) == \E k \in 1..NumNodes : Up(par, n, k) = a

\* the last call was node.parent = value
LastSet == last.kind = "set"

\* the last call was node.parent = value and it raised exc
LastSetRaised(exc) == LastSet /\ last.outcome = exc

\* the last call was node.parent = value and it returned
LastSetReturned == LastSet /\ last.outcome = "ok"

----------------------------------------------------------------------------
\* C1: a parent assignment that raises LoopError leaves the tree unchanged:
\* every node's parent and every children list are what they were before
\* the attempt, also when the node had a parent.
C1_LoopErrorLeavesTreeUnchanged ==
    LastSetRaised("LoopError") =>
        /\ parent = parent0
        /\ children = children0

\* C2: no node is its own ancestor; following parent references from any
\* node reaches a root in at most NumNodes steps.
C2_Acyclic ==
    \A n \in Nodes :
        /\ ~IsAncestor(parent, n, n)
        /\ \E k \in 0..NumNodes :
              /\ Up(parent, n, k) # None
              /\ parent[Up(parent, n, k)] = None

\* a loop was attempted under a descendant two levels down, and refused
C2_Witness ==
    /\ LastSetRaised("LoopError")
    /\ Up(parent, last.value, 2) = last.node

\* C3: after every parent assignment, returned or raised, a node that
\* appears in B's children list has B as its parent.
C3_ChildHasParent ==
    \A a \in Nodes, b \in Nodes :
        Contains(children[b], a) => parent[a] = b

\* an assignment on an attached node raised LoopError, and children remain
C3_Witness ==
    /\ LastSetRaised("LoopError")
    /\ parent0[last.node] # None
    /\ \E b \in Nodes : children[b] # <<>>

\* C4: for distinct A and B with B.parent not A, when B.parent = A returns,
\* B.parent is A, A is in B.path, and B is in A.children exactly once, as
\* the last element.
C4_AttachAppends ==
    (/\ LastSetReturned
     /\ last.value # None
     /\ last.value # last.node
     /\ parent0[last.node] # last.value)
    => LET A == last.value
           B == last.node
       IN  /\ parent[B] = A
           /\ Contains(Path(parent, B), A)
           /\ children[A] # <<>>
           /\ children[A][Len(children[A])] = B
           /\ Cardinality({i \in 1..Len(children[A]) : children[A][i] = B}) = 1

\* a node moved from one parent to another that already had a child
C4_Witness ==
    /\ LastSetReturned
    /\ last.value # None
    /\ parent0[last.node] \notin {None, last.value}
    /\ children0[last.value] # <<>>

\* C5: in every reachable state, for every B whose parent is A, the
\* assignment B.parent = None returns, and afterwards B.is_root holds and B
\* is not in A.children.
C5_DetachSucceeds ==
    (/\ LastSet
     /\ last.value = None
     /\ parent0[last.node] # None)
    => /\ last.outcome = "ok"
       /\ IsRoot(parent, last.node)
       /\ ~Contains(children[parent0[last.node]], last.node)

\* C6: in a tree built by parent assignments that all returned, N.parent = V
\* (V not None, V not the current parent) raises LoopError exactly when V is
\* N or N is an ancestor of V, and returns in every other case.
C6_LoopErrorIff ==
    (/\ LastSet
     /\ ~raised0
     /\ last.value # None
     /\ last.value # parent0[last.node])
    => LET N == last.node
           V == last.value
           loop == V = N \/ IsAncestor(parent0, N, V)
       IN  /\ loop => last.outcome = "LoopError"
           /\ ~loop => last.outcome = "ok"

\* an attached node was refused a descendant two levels down as parent
C6_Witness ==
    /\ LastSetRaised("LoopError")
    /\ ~raised0
    /\ parent0[last.node] # None
    /\ Up(parent0, last.value, 2) = last.node

\* C7: assigning B.parent the value it already has fires no hook and
\* changes no parent and no children list.
C7_SameParentNoOp ==
    (LastSet /\ last.value = parent0[last.node])
    => /\ last.outcome = "ok"
       /\ last.hooks = <<>>
       /\ parent = parent0
       /\ children = children0

\* a node that is the first of several children was assigned its own parent
C7_Witness ==
    /\ LastSetReturned
    /\ last.value # None
    /\ last.value = parent0[last.node]
    /\ Len(children0[last.value]) >= 2
    /\ children0[last.value][1] = last.node

\* what the hooks of a detach from p must have seen
DetachTrace(p) ==
    <<[hook |-> "pre_detach", arg |-> p, member |-> TRUE],
      [hook |-> "post_detach", arg |-> p, member |-> FALSE]>>

\* what the hooks of an attach to v must have seen
AttachTrace(v) ==
    <<[hook |-> "pre_attach", arg |-> v, member |-> FALSE],
      [hook |-> "post_attach", arg |-> v, member |-> TRUE]>>

\* C8: an assignment that returns and changes the parent from P to V fires
\* pre_detach(P), post_detach(P) (when P is a node) and then pre_attach(V),
\* post_attach(V) (when V is a node), and nothing else; the node is in
\* P.children at pre_detach and not at post_detach, not in V.children at
\* pre_attach and in it at post_attach.
C8_HookOrder ==
    (LastSetReturned /\ last.value # parent0[last.node])
    => LET P == parent0[last.node]
           V == last.value
       IN  last.hooks = (IF P # None THEN DetachTrace(P) ELSE <<>>)
                        \o (IF V # None THEN AttachTrace(V) ELSE <<>>)

\* a node was moved from one parent to another
C8_Witness ==
    /\ LastSetReturned
    /\ last.value # None
    /\ parent0[last.node] \notin {None, last.value}
    /\ Len(last.hooks) = 4

\* s without the elements equal to x, the others in their order
Without(s, x) == SelectSeq(s, LAMBDA y : y # x)

\* C9: an assignment N.parent = V that returns changes only N's parent, the
\* old parent's children (N removed, the others in their order) and the new
\* parent's children (N appended); N.descendants is the same sequence before
\* and after, and after N.parent = None N is the root of that subtree.
C9_Frame ==
    LastSetReturned
    => LET N == last.node
           V == last.value
           P == parent0[last.node]
       IN  /\ parent[N] = V
           /\ \A m \in Nodes \ {N} : parent[m] = parent0[m]
           /\ \A m \in Nodes \ {P, V} : children[m] = children0[m]
           /\ P = V => children = children0
           /\ (P # V /\ P # None) => children[P] = Without(children0[P], N)
           /\ (P # V /\ V # None) => children[V] = Append(children0[V], N)
           /\ Descendants(children, N) = Descendants(children0, N)
           /\ V = None =>
                 /\ IsRoot(parent, N)
                 /\ \A i \in 1..Len(Descendants(children, N)) :
                       Root(parent, Descendants(children, N)[i]) = N

\* a node with a child of its own and a sibling was detached
C9_Witness ==
    /\ LastSetReturned
    /\ last.value = None
    /\ parent0[last.node] # None
    /\ Len(children0[parent0[last.node]]) >= 2
    /\ Descendants(children, last.node) # <<>>

\* the nodes on the way from n to its root, n included
AncOrSelf(par, n) == {Up(par, n, k) : k \in 0..NumNodes} \ {None}

\* the root above n
TopOf(par, n) == CHOOSE r \in AncOrSelf(par, n) : par[r] = None

\* the lowest common ancestor of a and b (they have the same root)
LCA(par, a, b) ==
    LET common == AncOrSelf(par, a) \cap AncOrSelf(par, b)
    IN  CHOOSE l \in common : \A c \in common : c \in AncOrSelf(par, l)

\* the number of parent steps from n up to its ancestor a
Dist(par, n, a) == CHOOSE k \in 0..NumNodes : Up(par, n, k) = a

\* C10: walk(start, end) raises WalkError exactly when the two roots
\* differ; otherwise up is start's ancestors from its parent up to and
\* including the lowest common ancestor L (empty when start is L) and down
\* is the nodes of end's path below L down to end (empty when end is L).
C10_Walk ==
    last.kind = "walk"
    => LET start == last.node
           end == last.value
       IN  /\ last.outcome = "WalkError"
                 <=> TopOf(parent, start) # TopOf(parent, end)
           /\ last.outcome # "WalkError" =>
                 LET L == LCA(parent, start, end)
                     u == Dist(parent, start, L)
                     d == Dist(parent, end, L)
                 IN  /\ last.outcome = "ok"
                     /\ last.up = [i \in 1..u |-> Up(parent, start, i)]
                     /\ last.down = [i \in 1..d |-> Up(parent, end, d - i)]
                     /\ start = end => last.up = <<>> /\ last.down = <<>>

\* a walk that goes up two levels and then down
C10_Witness ==
    /\ last.kind = "walk"
    /\ last.outcome = "ok"
    /\ Len(last.up) = 2
    /\ Len(last.down) = 1

----------------------------------------------------------------------------
\* Vocabulary of the resolver properties, defined from children and names.

\* the positions of the children of n whose key is s
KeyPositions(ch, n, s) == {i \in 1..Len(ch[n]) : NameOf(ch[n][i]) = s}

\* the largest element of a non-empty set of numbers
Largest(S) == CHOOSE i \in S : \A j \in S : j <= i

\* the keys of the children of n, one per child, in children order
ChildKeys(ch, n) == [i \in 1..Len(ch[n]) |-> NameOf(ch[n][i])]

\* s with only the first occurrence of each element kept
RECURSIVE FirstOccurrences(_)
FirstOccurrences(s) ==
    IF s = <<>> THEN <<>>
    ELSE LET front == FirstOccurrences(SubSeq(s, 1, Len(s) - 1))
         IN  IF Contains(front, s[Len(s)]) THEN front
             ELSE Append(front, s[Len(s)])

\* the segment is a child name or a wildcard, not "", "." or ".."
IsNameSegment(s) == s \notin {Empty, Dot, DotDot}

\* a glob pattern matches a name: "*" stands for any characters, "?" for one
RECURSIVE Matches(_, _)
Matches(pat, name) ==
    IF pat = <<>> THEN name = <<>>
    ELSE IF Head(pat) = "*"
    THEN Matches(Tail(pat), name)
         \/ (name # <<>> /\ Matches(pat, Tail(name)))
    ELSE IF Head(pat) = "?"
    THEN name # <<>> /\ Matches(Tail(pat), Tail(name))
    ELSE name # <<>> /\ Head(name) = Head(pat) /\ Matches(Tail(pat), Tail(name))

\* the children of n that the segment s stands for
Meant(ch, n, s) == {ch[n][i] : i \in {j \in 1..Len(ch[n]) : Matches(s, NameOf(ch[n][j]))}}

\* the nodes reached from n by the first k segments of parts
RECURSIVE Reach(_, _, _, _)
Reach(ch, n, parts, k) ==
    IF k = 0 THEN {n}
    ELSE UNION {Meant(ch, m, parts[k]) : m \in Reach(ch, n, parts, k - 1)}

\* a `..` segment of parts is applied at a node without parent, when the
\* segments before it resolve (a name to the last child with that key)
RECURSIVE DotDotAtRoot(_, _, _, _)
DotDotAtRoot(par, ch, n, parts) ==
    IF parts = <<>> THEN FALSE
    ELSE LET s == Head(parts) IN
         IF s = DotDot
         THEN par[n] = None \/ DotDotAtRoot(par, ch, par[n], Tail(parts))
         ELSE IF s \in {Empty, Dot}
         THEN DotDotAtRoot(par, ch, n, Tail(parts))
         ELSE /\ KeyPositions(ch, n, s) # {}
              /\ DotDotAtRoot(par, ch, ch[n][Largest(KeyPositions(ch, n, s))],
                              Tail(parts))

\* the last call was get / glob
LastGet == last.kind = "get"
LastGlob == last.kind = "glob"

----------------------------------------------------------------------------
\* C11: Resolver.get fails with ResolverError whenever a `..` segment is
\* applied at a node that has no parent, whether `..` is the last segment
\* or further segments follow.
C11_DotDotPastRootFails ==
    (/\ LastGet
     /\ ~IsAbsolute(res.parts)
     /\ DotDotAtRoot(parent, children, last.node, res.parts))
    => last.outcome = "ResolverError"

\* C12 as stated: for a single non-wildcard segment s, get returns the last
\* child with key s; when there is none it fails with ChildResolverError
\* naming s and carrying the keys of all children in children order.
C12_GetSingleSegmentAllKeys ==
    (/\ LastGet
     /\ Len(res.parts) = 1
     /\ IsNameSegment(res.parts[1])
     /\ ~IsWildcard(res.parts[1]))
    => LET s == res.parts[1]
           n == last.node
           at == KeyPositions(children, n, s)
       IN  IF at # {}
           THEN /\ last.outcome = "ok"
                /\ res.node = children[n][Largest(at)]
           ELSE /\ last.outcome = "ChildResolverError"
                /\ res.enode = n
                /\ res.echild = s
                /\ res.ekeys = ChildKeys(children, n)

\* C12 as amended: the error carries each distinct key of the children
\* once, in the order of its first occurrence among the children.
C12_GetSingleSegment ==
    (/\ LastGet
     /\ Len(res.parts) = 1
     /\ IsNameSegment(res.parts[1])
     /\ ~IsWildcard(res.parts[1]))
    => LET s == res.parts[1]
           n == last.node
           at == KeyPositions(children, n, s)
       IN  IF at # {}
           THEN /\ last.outcome = "ok"
                /\ res.node = children[n][Largest(at)]
           ELSE /\ last.outcome = "ChildResolverError"
                /\ res.enode = n
                /\ res.echild = s
                /\ res.ekeys = FirstOccurrences(ChildKeys(children, n))

\* get returned the second of two children that share the key asked for
C12_Witness ==
    /\ LastGet
    /\ last.outcome = "ok"
    /\ Len(res.parts) = 1
    /\ IsNameSegment(res.parts[1])
    /\ Cardinality(KeyPositions(children, last.node, res.parts[1])) = 2
    /\ res.node = children[last.node][Largest(KeyPositions(children, last.node, res.parts[1]))]

\* C13: in a path of child names and wildcards in which every name names
\* an existing child and some wildcard matches no child, glob returns
\* without raising, and returns the empty list when no branch matches.
C13_EmptyWildcardNoError ==
    (/\ LastGlob
     /\ reLegacy
     /\ \A k \in 1..Len(res.parts) : IsNameSegment(res.parts[k])
     /\ \A k \in 1..Len(res.parts) :
           ~IsWildcard(res.parts[k]) =>
              \A m \in Reach(children, last.node, res.parts, k - 1) :
                 Meant(children, m, res.parts[k]) # {}
     /\ \E k \in 1..Len(res.parts) :
           /\ IsWildcard(res.parts[k])
           /\ \E m \in Reach(children, last.node, res.parts, k - 1) :
                 Meant(children, m, res.parts[k]) = {})
    => /\ last.outcome = "ok"
       /\ Reach(children, last.node, res.parts, Len(res.parts)) = {}
             => res.nodes = <<>>

\* C14: for a wildcard-free path, whenever get returns a node n, glob
\* returns the list [n].
C14_GlobLikeGet ==
    (/\ LastGlob
     /\ reLegacy
     /\ \A k \in 1..Len(res.parts) : ~IsWildcard(res.parts[k])
     /\ Get(parent, children, last.node, res.parts).outcome = "ok"
     /\ Get(parent, children, last.node, res.parts).node # None)
    => /\ last.outcome = "ok"
       /\ res.nodes = <<Get(parent, children, last.node, res.parts).node>>

\* the lists s[1], s[2], ... of nodes, one after the other
RECURSIVE ChildrenOfAll(_, _)
ChildrenOfAll(ch, s) ==
    IF s = <<>> THEN <<>> ELSE ch[Head(s)] \o ChildrenOfAll(ch, Tail(s))

\* C15: glob(node, "*") returns every child of node once, in children
\* order, and glob(node, "*/*") every grandchild once, grouped by child,
\* also when siblings share a key.
C15_StarExpandsToAll ==
    (LastGlob /\ reLegacy)
    => /\ res.parts = << <<"*">> >> =>
             /\ last.outcome = "ok"
             /\ res.nodes = children[last.node]
       /\ res.parts = << <<"*">>, <<"*">> >> =>
             /\ last.outcome = "ok"
             /\ res.nodes = ChildrenOfAll(children, children[last.node])

\* the pre-order of the subtree of n: n, then the pre-order of each child
RECURSIVE PreOrderOf(_, _)
RECURSIVE PreOrderOfAll(_, _)
PreOrderOf(ch, n) == <<n>> \o PreOrderOfAll(ch, ch[n])
PreOrderOfAll(ch, s) ==
    IF s = <<>> THEN <<>>
    ELSE PreOrderOf(ch, Head(s)) \o PreOrderOfAll(ch, Tail(s))

\* the nodes of the subtree of n: n and all that is below it
RECURSIVE Below(_, _, _)
Below(ch, S, k) ==
    IF k = 0 THEN S
    ELSE Below(ch, S \cup UNION {{ch[m][i] : i \in 1..Len(ch[m])} : m \in S}, k - 1)

\* what the claim says of a sequence out yielded for node n on the tree ch
IsPreOrder(ch, n, out) ==
    /\ out = PreOrderOf(ch, n)
    /\ out[1] = n
    /\ {out[i] : i \in 1..Len(out)} = Below(ch, {n}, NumNodes)
    /\ \A i \in 1..Len(out), j \in 1..Len(out) : out[i] = out[j] => i = j
    /\ \A i \in 2..Len(out) :
          \E j \in 1..(i - 1) : Contains(ch[out[j]], out[i])
    /\ Descendants(ch, n) = Tail(out)

\* C16 as stated: PreOrderIter(node) yields node and then, child by child
\* in children order, the pre-order of each child's subtree; every node of
\* the subtree is yielded once and after its parent; descendants is the
\* same sequence without its first element.  Read in the way most
\* favourable to the claim: of the tree as it was at some moment of the
\* iteration.
C16_PreOrderAlways ==
    it.pc = "done" => \E ch \in it.seen : IsPreOrder(ch, it.node, it.out)

\* C16, amended: when no parent is assigned between the creation of the
\* iterator and its end, PreOrderIter(node) yields node and then, child by
\* child in children order, the pre-order of each child's subtree; every
\* node of the subtree is yielded once and after its parent; descendants
\* is the same sequence without its first element.
C16_PreOrder ==
    (it.pc = "done" /\ it.assigned = 0)
    => IsPreOrder(children, it.node, it.out)

\* a node with two children, the first of which has a child, was iterated
\* to the end with no assignment in between
C16_Witness ==
    /\ it.pc = "done"
    /\ it.assigned = 0
    /\ Len(it.out) = 4
    /\ Len(children[it.node]) = 2
    /\ children[children[it.node][1]] # <<>>

\* C17: the pattern cache never holds more than MAXCACHE entries; a miss
\* at MAXCACHE entries leaves exactly the new pattern in the cache; a hit,
\* or a miss below MAXCACHE, removes no entry.
C17_CacheBounded ==
    /\ Cardinality(cache) <= MAXCACHE
    /\ last.kind = "match" =>
          LET hit == res.pat \in cache0 IN
          /\ hit => cache = cache0
          /\ (~hit /\ Cardinality(cache0) < MAXCACHE) => cache0 \subseteq cache
          /\ (~hit /\ Cardinality(cache0) >= MAXCACHE) => cache = {res.pat}

\* a new pattern was matched while the cache was full
C17_Witness ==
    /\ last.kind = "match"
    /\ Cardinality(cache0) = MAXCACHE
    /\ res.pat \notin cache0
    /\ cache = {res.pat}

\* C18: after any sequence of parent assignments, raised ones included,
\* every node whose parent is P appears in P.children.
C18_ParentListsChild ==
    \A n \in Nodes :
        parent[n] # None => Contains(children[parent[n]], n)

====
